---- MODULE Spec2Model ----
(***************************************************************************)
(* Model of the Cognito-backed Authentication Service (package             *)
(* auth_cognito, type cognitoAuth) and of the input constructors of        *)
(* package auth.  One request is followed at a time: the service keeps no  *)
(* state between calls, the identity provider is the system of record.     *)
(* Strings the code only passes through are opaque values; error texts are *)
(* sequences of words and strings.Contains is membership of a word.        *)
(***************************************************************************)
EXTENDS Integers, Sequences, FiniteSets, TLC

\* ---------------------------------------------------------------- bounds
MaxLen == 2      \* longest username, in characters
MaxUsers == 2    \* identities the provider's user pool may hold

\* ------------------------------------------------------- usernames, groups
Chars == {"a", "A"}

LowerChar(ch) == IF ch = "A" THEN "a" ELSE ch

\* strings.ToLower
ToLower(s) == [i \in DOMAIN s |-> LowerChar(s[i])]

Usernames == UNION {[1..n -> Chars] : n \in 1..MaxLen}

NoName == <<>>

\* type UserGroup and its two constants
Admin == "Admin"
User == "User"
UserGroup == {Admin, User}

\* ------------------------------------------------------------------ errors
\* A Go error value: kind "nil" is the nil error, "api" an app_error value
\* carrying an HTTP status, "raw" an error of the provider SDK, the
\* verification library or the context package (no status).
NilErr == [kind |-> "nil", status |-> 0, text |-> <<>>]

NewApiError(status, message) == [kind |-> "api", status |-> status, text |-> <<message>>]

\* the status class of an error value (spec section 6)
StatusClass(err) ==
    IF err.kind # "api" THEN "none"
    ELSE CASE err.status = 401 -> "Unauthorized"
           [] err.status = 404 -> "NotFound"
           [] err.status = 409 -> "Conflict"
           [] err.status = 400 -> "BadRequest"
           [] err.status = 500 -> "Internal"
           [] OTHER -> "none"

\* strings.Contains(err.Error(), signal)
Contains(text, signal) == \E i \in DOMAIN text : text[i] = signal

\* The failures the provider client can return: text[1] is the exception
\* name (the signal), text[2] the provider's message.  The message of a
\* Lambda-trigger failure is free text and may quote another exception name.
ProviderCodes ==
    {"NotAuthorizedException", "PasswordResetRequiredException",
     "UserNotConfirmedException", "UsernameExistsException",
     "CodeMismatchException", "ExpiredCodeException",
     "UserNotFoundException", "ResourceNotFoundException",
     "InternalErrorException"}

ProviderError(code, detail) == [kind |-> "raw", status |-> 0, text |-> <<code, detail>>]

ProviderErrors ==
    {ProviderError(code, "detail") : code \in ProviderCodes}
    \cup {ProviderError("UserLambdaValidationException", "UsernameExistsException")}

Signal(err) == err.text[1]

\* ------------------------------------------------------- handler results
NilPtr == "<nil>"

NoOut == [AccessToken |-> "", RefreshToken |-> "", IdToken |-> "",
          IsConfirmed |-> FALSE, Username |-> NoName, Name |-> "",
          Email |-> "", Id |-> "", UserGroups |-> {}]

\* what a handler hands back: kind "ok" (output, nil error), "err" (nil
\* output, error) or "panic" (nil-pointer dereference, nothing returned)
Ok(out) == [kind |-> "ok", err |-> NilErr, out |-> out, logged |-> FALSE]
Fail(err, logged) == [kind |-> "err", err |-> err, out |-> NoOut, logged |-> logged]
Panic == [kind |-> "panic", err |-> NilErr, out |-> NoOut, logged |-> FALSE]
NoResult == [kind |-> "none", err |-> NilErr, out |-> NoOut, logged |-> FALSE]


\* ------------------------------------------------------------------- state
VARIABLES
    users,         \* provider: usernames of the identities in the user pool
    forceChange,   \* provider: identities in status FORCE_CHANGE_PASSWORD
    members,       \* provider: <<username, group>> memberships
    pc,            \* the request: "ready", "addgroup" (between the two provider calls), "done"
    op,            \* the operation the request runs
    input,         \* its input value
    cognitoOut,    \* the handler's local: the provider's answer it works on
    calls,         \* provider calls the request has issued, in order
    result,        \* what the operation handed back
    reqCancelled   \* the inbound request's context is cancelled

vars == <<users, forceChange, members, pc, op, input, cognitoOut, calls, result, reqCancelled>>

provider == <<users, forceChange, members>>

\* ------------------------------------------------------------------ inputs
\* Password, Name and Code are passed to the provider untouched and decide
\* nothing in this layer; the provider's answer is chosen in the actions.
NoInput == [Username |-> NoName, GroupName |-> "", Token |-> ""]

NewLoginInput(username) == [NoInput EXCEPT !.Username = ToLower(username)]
NewSignUpInput(username) == [NoInput EXCEPT !.Username = ToLower(username)]
NewConfirmSignUpInput(username) == [NoInput EXCEPT !.Username = ToLower(username)]
NewCreateAdminInput(username) == [NoInput EXCEPT !.Username = ToLower(username)]
NewGetUserInput(accessToken) == [NoInput EXCEPT !.Token = accessToken]
NewRefreshTokenInput(refreshToken) == [NoInput EXCEPT !.Token = refreshToken]

\* AddGroupInput and RemoveGroupInput have exported fields and no
\* constructor: every caller writes the struct literal.
AddGroupInput(username, group) == [NoInput EXCEPT !.Username = username, !.GroupName = group]
RemoveGroupInput(username, group) == [NoInput EXCEPT !.Username = username, !.GroupName = group]

\* The callers of the other operations build the input with its constructor.
LoginInputs == {NewLoginInput(u) : u \in Usernames}
SignUpInputs == {NewSignUpInput(u) : u \in Usernames}
ConfirmSignUpInputs == {NewConfirmSignUpInput(u) : u \in Usernames}
CreateAdminInputs == {NewCreateAdminInput(u) : u \in Usernames}

\* --------------------------------------------------------- provider client
\* The context every provider call is given: the field c.ctx, set once by
\* NewCognitoAuth.  "svc" is that construction-time context, "req" the
\* inbound request's.
NewCognitoAuth == [ctx |-> "svc"]

CallCtx == NewCognitoAuth.ctx

Done(ctx) == IF ctx = "req" THEN reqCancelled ELSE FALSE

Canceled == [kind |-> "raw", status |-> 0, text |-> <<"context", "canceled">>]

\* a provider call as issued: what it carried, the context it was given,
\* whether the request was already cancelled, and the error it came back with
Call(api, username, group, err) ==
    [api |-> api, Username |-> username, GroupName |-> group,
     ctx |-> CallCtx, reqCancelled |-> reqCancelled, err |-> err]

NilAuth == [isNil |-> TRUE, AccessToken |-> NilPtr, RefreshToken |-> NilPtr, IdToken |-> NilPtr]

AuthReply(err, auth, challenge) ==
    [err |-> err, AuthenticationResult |-> auth, ChallengeName |-> challenge]

AuthFailures ==
    IF Done(CallCtx) THEN {AuthReply(Canceled, NilAuth, "")}
    ELSE {AuthReply(e, NilAuth, "") : e \in ProviderErrors}

\* InitiateAuth, flow USER_PASSWORD_AUTH: tokens for a usable identity, the
\* NEW_PASSWORD_REQUIRED challenge (no error, no AuthenticationResult) for an
\* identity that still has its temporary password.
LoginReplies(username) ==
    AuthFailures
    \cup (IF ~Done(CallCtx) /\ username \in users \ forceChange
          THEN {AuthReply(NilErr, [isNil |-> FALSE, AccessToken |-> "at",
                                   RefreshToken |-> "rt", IdToken |-> "it"], "")}
          ELSE {})
    \cup (IF ~Done(CallCtx) /\ username \in forceChange
          THEN {AuthReply(NilErr, NilAuth, "NEW_PASSWORD_REQUIRED")}
          ELSE {})

\* InitiateAuth, flow REFRESH_TOKEN_AUTH: the provider issues no new refresh
\* token; a reply may also lack the result or one of its tokens.
RefreshReplies ==
    AuthFailures
    \cup (IF Done(CallCtx) THEN {}
          ELSE {AuthReply(NilErr, NilAuth, "")}
               \cup {AuthReply(NilErr, [isNil |-> FALSE, AccessToken |-> a,
                                        RefreshToken |-> NilPtr, IdToken |-> i], "")
                     : a \in {NilPtr, "at"}, i \in {NilPtr, "it"}})

\* the error of a call that answers with an error or with nothing else
PlainFailures == IF Done(CallCtx) THEN {Canceled} ELSE ProviderErrors


SignUpReply(err, confirmed) == [err |-> err, UserConfirmed |-> confirmed]

NoCognitoOut == SignUpReply(NilErr, FALSE)

\* a username the pool does not hold yet can be created while there is room
CanCreate(username) == username \notin users /\ Cardinality(users) < MaxUsers

\* UsernameExistsException is the answer for a username the pool holds
CreateFailures(username) ==
    {e \in PlainFailures : Signal(e) = "UsernameExistsException" => username \in users}

\* SignUp
SignUpReplies(username) ==
    {SignUpReply(e, FALSE) : e \in CreateFailures(username)}
    \cup (IF ~Done(CallCtx) /\ CanCreate(username)
          THEN {SignUpReply(NilErr, b) : b \in BOOLEAN}
          ELSE {})

\* AdminCreateUser
AdminCreateUserReplies(username) ==
    CreateFailures(username)
    \cup (IF ~Done(CallCtx) /\ CanCreate(username) THEN {NilErr} ELSE {})

\* AdminAddUserToGroup, AdminRemoveUserFromGroup: UserNotFoundException is
\* the answer for a username the pool does not hold; ResourceNotFoundException
\* (the pool has no such group) depends on the pool's configuration.
GroupReplies(username) ==
    {e \in PlainFailures : Signal(e) = "UserNotFoundException" => username \notin users}
    \cup (IF ~Done(CallCtx) /\ username \in users THEN {NilErr} ELSE {})

\* ConfirmSignUp
ConfirmSignUpReplies == PlainFailures \cup (IF Done(CallCtx) THEN {} ELSE {NilErr})

\* GetUser: the identity owning the access token, with its attributes
GetUserReply(err, username, attrs) == [err |-> err, Username |-> username, UserAttributes |-> attrs]

GetUserReplies ==
    {GetUserReply(e, NoName, <<>>) : e \in PlainFailures}
    \cup (IF Done(CallCtx) THEN {}
          ELSE {GetUserReply(NilErr, u, a) : u \in users, a \in {<<>>, <<"name">>}})

\* ----------------------------------------------------------- token verifier
\* jwt_verify.ParseJWT: tokens are opaque, told apart by what the verifier
\* finds in them.
Tokens == {"jwt-valid", "jwt-expired", "jwt-malformed", "jwt-badsig"}

\* the verification library's own error text
RawVerifyText(token) ==
    CASE token = "jwt-expired" -> "token is expired"
      [] token = "jwt-malformed" -> "token is malformed"
      [] token = "jwt-badsig" -> "signature is invalid"
      [] OTHER -> ""

NoClaims == [Email |-> "", Sub |-> "", UserGroups |-> {}]

ParseJWT(token) ==
    IF token = "jwt-valid"
    THEN [err |-> NilErr, claims |-> [Email |-> "a@x", Sub |-> "sub-1", UserGroups |-> {Admin, User}]]
    ELSE [err |-> NewApiError(401, "Invalid token"), claims |-> NoClaims]


\* ---------------------------------------------------- handlers: the returns
\* Login: what it hands back for the provider's answer
LoginReturn(reply) ==
    IF reply.err # NilErr
    THEN IF Contains(reply.err.text, "NotAuthorizedException")
         THEN Fail(NewApiError(401, "Invalid username or password"), FALSE)
         ELSE IF Contains(reply.err.text, "PasswordResetRequiredException")
         THEN Fail(NewApiError(401, "Password reset required"), FALSE)
         ELSE IF Contains(reply.err.text, "UserNotConfirmedException")
         THEN Fail(NewApiError(401, "User not confirmed"), FALSE)
         ELSE Fail(reply.err, TRUE)
    ELSE IF \/ reply.AuthenticationResult.isNil
            \/ reply.AuthenticationResult.AccessToken = NilPtr
            \/ reply.AuthenticationResult.RefreshToken = NilPtr
            \/ reply.AuthenticationResult.IdToken = NilPtr
         THEN Panic
         ELSE Ok([NoOut EXCEPT !.AccessToken = reply.AuthenticationResult.AccessToken,
                               !.RefreshToken = reply.AuthenticationResult.RefreshToken,
                               !.IdToken = reply.AuthenticationResult.IdToken])

SignUpCreated_WrongSignal(reply) ==
    IF reply.err # NilErr
    THEN IF Contains(reply.err.text, "UserNotFoundException")
         THEN [next |-> "done", result |-> Fail(NewApiError(409, "Username already exists"), FALSE)]
         ELSE [next |-> "done", result |-> Fail(reply.err, TRUE)]
    ELSE [next |-> "addgroup", result |-> NoResult]

\* SignUp after the sign-up call: return, or go on to the group assignment
SignUpCreated(reply) ==
    IF reply.err # NilErr
    THEN IF Contains(reply.err.text, "UsernameExistsException")
         THEN [next |-> "done", result |-> Fail(NewApiError(409, "Username already exists"), FALSE)]
         ELSE [next |-> "done", result |-> Fail(reply.err, TRUE)]
    ELSE [next |-> "addgroup", result |-> NoResult]

AddGroupReturn_Swallow(err) == [err |-> NilErr, logged |-> err # NilErr]

\* AddGroup: the error it returns for the provider's answer
AddGroupReturn(err) ==
    IF err # NilErr
    THEN IF Contains(err.text, "UserNotFoundException")
         THEN [err |-> NewApiError(404, "User not found"), logged |-> FALSE]
         ELSE IF Contains(err.text, "ResourceNotFoundException")
         THEN [err |-> NewApiError(404, "Group not found"), logged |-> FALSE]
         ELSE [err |-> err, logged |-> TRUE]
    ELSE [err |-> NilErr, logged |-> FALSE]

\* SignUp after AddGroup
SignUpReturn(added, out) ==
    IF added.err # NilErr
    THEN Fail(added.err, added.logged)
    ELSE Ok([NoOut EXCEPT !.IsConfirmed = out.UserConfirmed])

ConfirmSignUpReturn(err) ==
    IF err # NilErr
    THEN IF Contains(err.text, "CodeMismatchException")
         THEN Fail(NewApiError(400, "Invalid confirmation code"), FALSE)
         ELSE IF Contains(err.text, "ExpiredCodeException")
         THEN Fail(NewApiError(400, "Confirmation code expired"), FALSE)
         ELSE Fail(err, TRUE)
    ELSE Ok(NoOut)

GetUserReturn(reply) ==
    IF reply.err # NilErr
    THEN IF Contains(reply.err.text, "NotAuthorizedException")
         THEN Fail(NewApiError(401, "Invalid access token"), FALSE)
         ELSE IF Contains(reply.err.text, "UserNotFoundException")
         THEN Fail(NewApiError(404, "User not found"), FALSE)
         ELSE Fail(reply.err, TRUE)
    ELSE IF reply.UserAttributes = <<>>
         THEN Panic
         ELSE Ok([NoOut EXCEPT !.Username = reply.Username, !.Name = reply.UserAttributes[1]])

ValidateToken_RawText(token) ==
    LET parsed == ParseJWT(token) IN
    IF parsed.err # NilErr
    THEN Fail([kind |-> "raw", status |-> 0, text |-> <<RawVerifyText(token)>>], FALSE)
    ELSE Ok([NoOut EXCEPT !.Email = parsed.claims.Email,
                          !.Id = parsed.claims.Sub,
                          !.UserGroups = parsed.claims.UserGroups])

ValidateToken(token) ==
    LET parsed == ParseJWT(token) IN
    IF parsed.err # NilErr
    THEN Fail(parsed.err, FALSE)
    ELSE Ok([NoOut EXCEPT !.Email = parsed.claims.Email,
                          !.Id = parsed.claims.Sub,
                          !.UserGroups = parsed.claims.UserGroups])

RemoveGroupReturn(err) ==
    IF err # NilErr
    THEN IF Contains(err.text, "UserNotFoundException")
         THEN [err |-> NewApiError(404, "User not found"), logged |-> FALSE]
         ELSE IF Contains(err.text, "ResourceNotFoundException")
         THEN [err |-> NewApiError(404, "Group not found"), logged |-> FALSE]
         ELSE [err |-> err, logged |-> TRUE]
    ELSE [err |-> NilErr, logged |-> FALSE]

\* a nil pointer read as a string gives nothing usable
RefreshTokenReturn_NoNilCheck(reply) ==
    IF reply.err # NilErr
    THEN IF Contains(reply.err.text, "NotAuthorizedException")
         THEN Fail(NewApiError(401, "Invalid refresh token"), FALSE)
         ELSE Fail(reply.err, TRUE)
    ELSE Ok([NoOut EXCEPT
               !.AccessToken = IF reply.AuthenticationResult.AccessToken = NilPtr
                               THEN "" ELSE reply.AuthenticationResult.AccessToken,
               !.IdToken = IF reply.AuthenticationResult.IdToken = NilPtr
                           THEN "" ELSE reply.AuthenticationResult.IdToken])

RefreshTokenReturn(reply) ==
    IF reply.err # NilErr
    THEN IF Contains(reply.err.text, "NotAuthorizedException")
         THEN Fail(NewApiError(401, "Invalid refresh token"), FALSE)
         ELSE Fail(reply.err, TRUE)
    ELSE IF \/ reply.AuthenticationResult.isNil
            \/ reply.AuthenticationResult.AccessToken = NilPtr
            \/ reply.AuthenticationResult.IdToken = NilPtr
         THEN Panic
         ELSE Ok([NoOut EXCEPT !.AccessToken = reply.AuthenticationResult.AccessToken,
                               !.IdToken = reply.AuthenticationResult.IdToken])

CreateAdminCreated_GoesOn(err) ==
    IF err # NilErr /\ Contains(err.text, "UsernameExistsException")
    THEN [next |-> "done", result |-> Fail(NewApiError(409, "Username already exists"), FALSE)]
    ELSE [next |-> "addgroup", result |-> NoResult]

\* CreateAdmin after the create call: return, or go on to the group assignment
CreateAdminCreated(err) ==
    IF err # NilErr
    THEN IF Contains(err.text, "UsernameExistsException")
         THEN [next |-> "done", result |-> Fail(NewApiError(409, "Username already exists"), FALSE)]
         ELSE [next |-> "done", result |-> Fail(err, TRUE)]
    ELSE [next |-> "addgroup", result |-> NoResult]

\* CreateAdmin after AddGroup
CreateAdminReturn(added, in) ==
    IF added.err # NilErr
    THEN Fail(added.err, added.logged)
    ELSE Ok([NoOut EXCEPT !.Username = in.Username])


\* ----------------------------------------------------------------- actions
Init ==
    /\ users = {}
    /\ forceChange = {}
    /\ members = {}
    /\ pc = "ready"
    /\ op = ""
    /\ input = NoInput
    /\ cognitoOut = NoCognitoOut
    /\ calls = <<>>
    /\ result = NoResult
    /\ reqCancelled = FALSE

\* the routing layer hands the next request to its handler
Accept ==
    /\ pc = "done"
    /\ pc' = "ready"
    /\ op' = ""
    /\ input' = NoInput
    /\ cognitoOut' = NoCognitoOut
    /\ calls' = <<>>
    /\ result' = NoResult
    /\ reqCancelled' = FALSE
    /\ UNCHANGED provider

\* the client goes away or the request's deadline passes
CancelRequest ==
    /\ pc \in {"ready", "addgroup"}
    /\ ~reqCancelled
    /\ reqCancelled' = TRUE
    /\ UNCHANGED <<provider, pc, op, input, cognitoOut, calls, result>>

Login ==
    /\ pc = "ready"
    /\ \E in \in LoginInputs :
       \E reply \in LoginReplies(in.Username) :
          /\ op' = "Login"
          /\ input' = in
          /\ calls' = Append(calls, Call("InitiateAuth", in.Username, "", reply.err))
          /\ result' = LoginReturn(reply)
          /\ cognitoOut' = reply
          /\ pc' = "done"
    /\ UNCHANGED <<provider, reqCancelled>>

SignUp ==
    /\ pc = "ready"
    /\ \E in \in SignUpInputs :
       \E reply \in SignUpReplies(in.Username) :
          /\ op' = "SignUp"
          /\ input' = in
          /\ cognitoOut' = reply
          /\ calls' = Append(calls, Call("SignUp", in.Username, "", reply.err))
          /\ users' = IF reply.err = NilErr THEN users \cup {in.Username} ELSE users
          /\ result' = SignUpCreated(reply).result
          /\ pc' = SignUpCreated(reply).next
    /\ UNCHANGED <<forceChange, members, reqCancelled>>

\* SignUp's call of AddGroup and its return
SignUpAddGroup ==
    /\ pc = "addgroup"
    /\ op = "SignUp"
    /\ LET in == AddGroupInput(input.Username, User) IN
       \E err \in GroupReplies(in.Username) :
          /\ calls' = Append(calls, Call("AdminAddUserToGroup", in.Username, in.GroupName, err))
          /\ members' = IF err = NilErr THEN members \cup {<<in.Username, in.GroupName>>} ELSE members
          /\ result' = SignUpReturn(AddGroupReturn(err), cognitoOut)
          /\ pc' = "done"
    /\ UNCHANGED <<users, forceChange, op, input, cognitoOut, reqCancelled>>

ConfirmSignUp ==
    /\ pc = "ready"
    /\ \E in \in ConfirmSignUpInputs :
       \E err \in ConfirmSignUpReplies :
          /\ op' = "ConfirmSignUp"
          /\ input' = in
          /\ calls' = Append(calls, Call("ConfirmSignUp", in.Username, "", err))
          /\ result' = ConfirmSignUpReturn(err)
          /\ pc' = "done"
    /\ UNCHANGED <<provider, cognitoOut, reqCancelled>>

GetUser ==
    /\ pc = "ready"
    /\ \E reply \in GetUserReplies :
          /\ op' = "GetUser"
          /\ input' = NewGetUserInput("at")
          /\ calls' = Append(calls, Call("GetUser", NoName, "", reply.err))
          /\ result' = GetUserReturn(reply)
          /\ cognitoOut' = reply
          /\ pc' = "done"
    /\ UNCHANGED <<provider, reqCancelled>>

ValidateTokenOp ==
    /\ pc = "ready"
    /\ \E token \in Tokens :
          /\ op' = "ValidateToken"
          /\ input' = [NoInput EXCEPT !.Token = token]
          /\ result' = ValidateToken(token)
          /\ pc' = "done"
    /\ UNCHANGED <<provider, cognitoOut, calls, reqCancelled>>

AddGroup ==
    /\ pc = "ready"
    /\ \E u \in Usernames, g \in UserGroup :
       LET in == AddGroupInput(u, g) IN
       \E err \in GroupReplies(in.Username) :
          /\ op' = "AddGroup"
          /\ input' = in
          /\ calls' = Append(calls, Call("AdminAddUserToGroup", in.Username, in.GroupName, err))
          /\ members' = IF err = NilErr THEN members \cup {<<in.Username, in.GroupName>>} ELSE members
          /\ result' = IF AddGroupReturn(err).err = NilErr
                       THEN Ok(NoOut)
                       ELSE Fail(AddGroupReturn(err).err, AddGroupReturn(err).logged)
          /\ pc' = "done"
    /\ UNCHANGED <<users, forceChange, cognitoOut, reqCancelled>>

RemoveGroup ==
    /\ pc = "ready"
    /\ \E u \in Usernames, g \in UserGroup :
       LET in == RemoveGroupInput(u, g) IN
       \E err \in GroupReplies(in.Username) :
          /\ op' = "RemoveGroup"
          /\ input' = in
          /\ calls' = Append(calls, Call("AdminRemoveUserFromGroup", in.Username, in.GroupName, err))
          /\ members' = IF err = NilErr THEN members \ {<<in.Username, in.GroupName>>} ELSE members
          /\ result' = IF RemoveGroupReturn(err).err = NilErr
                       THEN Ok(NoOut)
                       ELSE Fail(RemoveGroupReturn(err).err, RemoveGroupReturn(err).logged)
          /\ pc' = "done"
    /\ UNCHANGED <<users, forceChange, cognitoOut, reqCancelled>>

RefreshToken ==
    /\ pc = "ready"
    /\ \E reply \in RefreshReplies :
          /\ op' = "RefreshToken"
          /\ input' = NewRefreshTokenInput("rt")
          /\ calls' = Append(calls, Call("InitiateAuth", NoName, "", reply.err))
          /\ result' = RefreshTokenReturn(reply)
          /\ cognitoOut' = reply
          /\ pc' = "done"
    /\ UNCHANGED <<provider, reqCancelled>>

CreateAdmin ==
    /\ pc = "ready"
    /\ \E in \in CreateAdminInputs :
       \E err \in AdminCreateUserReplies(in.Username) :
          /\ op' = "CreateAdmin"
          /\ input' = in
          /\ calls' = Append(calls, Call("AdminCreateUser", in.Username, "", err))
          /\ users' = IF err = NilErr THEN users \cup {in.Username} ELSE users
          /\ forceChange' = IF err = NilErr THEN forceChange \cup {in.Username} ELSE forceChange
          /\ result' = CreateAdminCreated(err).result
          /\ pc' = CreateAdminCreated(err).next
    /\ UNCHANGED <<members, cognitoOut, reqCancelled>>

\* CreateAdmin's call of AddGroup and its return
CreateAdminAddGroup ==
    /\ pc = "addgroup"
    /\ op = "CreateAdmin"
    /\ LET in == AddGroupInput(input.Username, Admin) IN
       \E err \in GroupReplies(in.Username) :
          /\ calls' = Append(calls, Call("AdminAddUserToGroup", in.Username, in.GroupName, err))
          /\ members' = IF err = NilErr THEN members \cup {<<in.Username, in.GroupName>>} ELSE members
          /\ result' = CreateAdminReturn(AddGroupReturn(err), input)
          /\ pc' = "done"
    /\ UNCHANGED <<users, forceChange, op, input, cognitoOut, reqCancelled>>

Next ==
    \/ Accept
    \/ CancelRequest
    \/ Login
    \/ SignUp
    \/ SignUpAddGroup
    \/ ConfirmSignUp
    \/ GetUser
    \/ ValidateTokenOp
    \/ AddGroup
    \/ RemoveGroup
    \/ RefreshToken
    \/ CreateAdmin
    \/ CreateAdminAddGroup

Spec == Init /\ [][Next]_vars


\* ------------------------------------------------------------- properties
Last(seq) == seq[Len(seq)]

Returned == pc = "done"

ReturnedErr == Returned /\ result.kind = "err"

\* the provider signals the specification names for each operation
AllowList(o) ==
    CASE o = "Login" -> {"NotAuthorizedException", "PasswordResetRequiredException",
                         "UserNotConfirmedException"}
      [] o = "SignUp" -> {"UsernameExistsException"}
      [] o = "CreateAdmin" -> {"UsernameExistsException"}
      [] o = "ConfirmSignUp" -> {"CodeMismatchException", "ExpiredCodeException"}
      [] o = "GetUser" -> {"NotAuthorizedException", "UserNotFoundException"}
      [] o = "RefreshToken" -> {"NotAuthorizedException"}
      [] o = "AddGroup" -> {"UserNotFoundException", "ResourceNotFoundException"}
      [] o = "RemoveGroup" -> {"UserNotFoundException", "ResourceNotFoundException"}
      [] OTHER -> {}

\* the typed status classes the specification names for each operation
TypedClasses(o) ==
    CASE o = "Login" -> {"Unauthorized"}
      [] o = "SignUp" -> {"Conflict"}
      [] o = "CreateAdmin" -> {"Conflict"}
      [] o = "ConfirmSignUp" -> {"BadRequest"}
      [] o = "GetUser" -> {"Unauthorized", "NotFound"}
      [] o = "RefreshToken" -> {"Unauthorized"}
      [] o = "AddGroup" -> {"NotFound"}
      [] o = "RemoveGroup" -> {"NotFound"}
      [] OTHER -> {}

ProviderOps ==
    {"Login", "SignUp", "ConfirmSignUp", "GetUser", "AddGroup", "RemoveGroup",
     "RefreshToken", "CreateAdmin"}

\* the request ended on a provider failure with a signal outside its allow-list
UnclassifiedFailure ==
    /\ Returned
    /\ op \in ProviderOps
    /\ calls # <<>>
    /\ Last(calls).err # NilErr
    /\ Signal(Last(calls).err) \notin AllowList(op)

\* C1: a provider failure whose signal is in none of the operation's
\* allow-listed signals comes back as a Domain Error of class Internal, for
\* every operation: never typed, never without a status class.
C1_UnclassifiedIsInternal ==
    UnclassifiedFailure => result.kind = "err" /\ StatusClass(result.err) = "Internal"

\* C2: a SignUp whose username the provider reports as existing returns
\* Conflict, and the run issues no AdminAddUserToGroup call.
C2_ExistingUsernameIsConflict ==
    (/\ op = "SignUp"
     /\ calls # <<>>
     /\ calls[1].err # NilErr
     /\ Signal(calls[1].err) = "UsernameExistsException")
    => /\ Returned
       /\ result.kind = "err"
       /\ StatusClass(result.err) = "Conflict"
       /\ \A i \in DOMAIN calls : calls[i].api # "AdminAddUserToGroup"

C2_Witness ==
    /\ Returned
    /\ op = "SignUp"
    /\ input.Username \in users
    /\ Len(calls) = 1
    /\ calls[1].err # NilErr
    /\ Signal(calls[1].err) = "UsernameExistsException"
    /\ StatusClass(result.err) = "Conflict"

RollbackApis == {"AdminDeleteUser", "DeleteUser", "AdminDisableUser"}

\* C3: SignUp is not atomic.  Both steps succeeding, it returns the
\* provider's confirmation flag and the identity is in the User group; the
\* group assignment failing after the identity was created, it returns an
\* error, the identity exists, is in no group, and no rollback call was made.
C3_SignUpNotAtomic ==
    (Returned /\ op = "SignUp" /\ calls[1].err = NilErr)
    => /\ Len(calls) = 2
       /\ input.Username \in users
       /\ \A i \in DOMAIN calls : calls[i].api \notin RollbackApis
       /\ IF calls[2].err = NilErr
          THEN /\ result.kind = "ok"
               /\ result.out.IsConfirmed = cognitoOut.UserConfirmed
               /\ <<input.Username, User>> \in members
          ELSE /\ result.kind = "err"
               /\ result.err # NilErr
               /\ \A g \in UserGroup : <<input.Username, g>> \notin members

C3_Witness ==
    /\ Returned
    /\ op = "SignUp"
    /\ Len(calls) = 2
    /\ calls[1].err = NilErr
    /\ calls[2].err # NilErr
    /\ result.kind = "err"
    /\ input.Username \in users
    /\ \A g \in UserGroup : <<input.Username, g>> \notin members

\* C4: provider calls are given the request's own context, and once the
\* request is cancelled no further provider call is issued for it.
C4_CancellationReachesProvider ==
    \A i \in DOMAIN calls :
        /\ calls[i].ctx = "req"
        /\ ~calls[i].reqCancelled

\* C5: a Login the provider answers with the forced-password-change
\* challenge (no error, no authentication result) returns an error: no
\* success output, no abnormal end.
C5_ForcedChangeIsError ==
    (/\ Returned
     /\ op = "Login"
     /\ cognitoOut.err = NilErr
     /\ cognitoOut.ChallengeName = "NEW_PASSWORD_REQUIRED")
    => result.kind = "err" /\ result.err # NilErr

\* C6: the username of every provider call that carries one is lower-case.
C6_UsernameLowerCased ==
    \A i \in DOMAIN calls : calls[i].Username = ToLower(calls[i].Username)

C8_OnlyNamedTypedErrors ==
    (ReturnedErr /\ op \in ProviderOps /\ StatusClass(result.err) \notin {"none", "Internal"})
    => StatusClass(result.err) \in TypedClasses(op)

\* C9: a refresh the provider rejects as not authorized returns Unauthorized
\* "Invalid refresh token" and no output; an output that is returned carries
\* the access token and the id token the provider issued.
C9_RefreshNeverPartial ==
    (Returned /\ op = "RefreshToken")
    => /\ (cognitoOut.err # NilErr /\ Signal(cognitoOut.err) = "NotAuthorizedException")
          => /\ result.kind = "err"
             /\ result.err = NewApiError(401, "Invalid refresh token")
             /\ result.out = NoOut
       /\ result.kind = "ok"
          => /\ cognitoOut.err = NilErr
             /\ ~cognitoOut.AuthenticationResult.isNil
             /\ result.out.AccessToken = "at"
             /\ result.out.AccessToken = cognitoOut.AuthenticationResult.AccessToken
             /\ result.out.IdToken = "it"
             /\ result.out.IdToken = cognitoOut.AuthenticationResult.IdToken

C9_Witness ==
    /\ Returned
    /\ op = "RefreshToken"
    /\ cognitoOut.err # NilErr
    /\ Signal(cognitoOut.err) = "NotAuthorizedException"
    /\ result.err = NewApiError(401, "Invalid refresh token")

OneCallApi(o) ==
    CASE o = "Login" -> "InitiateAuth"
      [] o = "ConfirmSignUp" -> "ConfirmSignUp"
      [] o = "GetUser" -> "GetUser"
      [] o = "AddGroup" -> "AdminAddUserToGroup"
      [] o = "RemoveGroup" -> "AdminRemoveUserFromGroup"
      [] o = "RefreshToken" -> "InitiateAuth"
      [] OTHER -> ""

TwoStep(createApi, group) ==
    /\ Len(calls) \in {1, 2}
    /\ calls[1].api = createApi
    /\ Len(calls) = 2 <=> calls[1].err = NilErr
    /\ Len(calls) = 2
       => /\ calls[2].api = "AdminAddUserToGroup"
          /\ calls[2].GroupName = group
          /\ calls[2].Username = input.Username

\* C10: no retry.  The one-call operations issue exactly one provider call;
\* SignUp and CreateAdmin issue the creation once and then, only if it
\* succeeded, the group assignment once (User, Admin); a failed provider call
\* is the last call of its request.
C10_NoRetry ==
    /\ \A i \in DOMAIN calls : calls[i].err # NilErr => (i = Len(calls) /\ Returned)
    /\ pc = "addgroup" => (Len(calls) = 1 /\ calls[1].err = NilErr)
    /\ Returned =>
         /\ OneCallApi(op) # "" => (Len(calls) = 1 /\ calls[1].api = OneCallApi(op))
         /\ op = "SignUp" => TwoStep("SignUp", User)
         /\ op = "CreateAdmin" => TwoStep("AdminCreateUser", Admin)

C10_Witness ==
    /\ Returned
    /\ op = "CreateAdmin"
    /\ Len(calls) = 2
    /\ calls[2].err # NilErr

====
